---- MODULE Spec2Model ----
(***************************************************************************)
(* Model of vw/tools/multispectral.h: the WorldView-3 calibration metadata *)
(* parser (load_worldview3_metadata), the derive step                       *)
(* (WorldViewMetadataContainer::populate_derived_values), the TOA           *)
(* conversion (convert_to_toa), the spectral indices, the water classifier  *)
(* (DetectWaterWorldView3Functor) and the driver (detect_water_worldview3). *)
(*                                                                          *)
(* Representation choices                                                   *)
(*  - A text line is a sequence of units.  A keyword ("BEGIN_GROUP",        *)
(*    "absCalFactor", ...) or a group name ("BAND_C", ...) is one unit;     *)
(*    every other character is a unit of its own.  Offsets (find, substr)   *)
(*    count units, so the offset arithmetic of the source (eqpos+1,         *)
(*    eqpos+2, substr(5,2), ...) acts on the characters that follow "=".    *)
(*  - A float is an extended fraction [n, d]: d > 0 is the rational n/d in  *)
(*    lowest terms, [1,0] and [-1,0] are +Inf and -Inf, [0,0] is NaN, and   *)
(*    [0,-1] marks a value that was never written.  Arithmetic is exact     *)
(*    (intermediate rounding is not modelled) except for the comparison     *)
(*    "ndwi > 0.1", where the float operand and the double literal are      *)
(*    rounded to 24 and 53 significant bits before they are compared.       *)
(*  - earth_sun_distance is held in units of 1/sqrt(pi) AU, so that         *)
(*    earth_sun_distance^2 * M_PI is the rational d*d; mean_sun_elevation   *)
(*    ranges over angles whose sine is rational.                            *)
(***************************************************************************)
EXTENDS Integers, Sequences, FiniteSets, TLC

NUM_WORLDVIEW_BANDS == 8

COASTAL == 0
BLUE == 1
GREEN == 2
YELLOW == 3
RED == 4
RED_EDGE == 5
NIR1 == 6
NIR2 == 7

Bands == 0..(NUM_WORLDVIEW_BANDS - 1)

(***************************************************************************)
(* Floats as extended fractions.                                           *)
(***************************************************************************)
Abs(x) == IF x < 0 THEN -x ELSE x

Sign(x) == IF x < 0 THEN -1 ELSE IF x > 0 THEN 1 ELSE 0

RECURSIVE Gcd(_, _)
Gcd(a, b) == IF b = 0 THEN a ELSE Gcd(b, a % b)

NaN == [n |-> 0, d |-> 0]
PosInf == [n |-> 1, d |-> 0]
NegInf == [n |-> -1, d |-> 0]
Unset == [n |-> 0, d |-> -1]

\* The fraction n/d (d possibly 0 or negative) in normal form.
Frac(n, d) ==
  IF d = 0 THEN [n |-> Sign(n), d |-> 0]
  ELSE LET g == Gcd(Abs(n), Abs(d))
           s == Sign(d)
       IN  [n |-> (s * n) \div g, d |-> (s * d) \div g]

Num(k) == [n |-> k, d |-> 1]

IsNaN(x) == x.d = 0 /\ x.n = 0
IsInf(x) == x.d = 0 /\ x.n # 0
IsFinite(x) == x.d > 0

\* IEEE addition: Inf + Inf = Inf, Inf - Inf = NaN, NaN absorbs.
FAdd(x, y) ==
  IF IsNaN(x) \/ IsNaN(y) THEN NaN
  ELSE IF IsInf(x) /\ IsInf(y) THEN (IF x.n = y.n THEN x ELSE NaN)
  ELSE IF IsInf(x) THEN x
  ELSE IF IsInf(y) THEN y
  ELSE LET g == Gcd(x.d, y.d)
       IN  Frac(x.n * (y.d \div g) + y.n * (x.d \div g), (x.d \div g) * y.d)

FNeg(x) == [n |-> -x.n, d |-> x.d]

FSub(x, y) == FAdd(x, FNeg(y))

\* IEEE multiplication: 0 * Inf = NaN.
FMul(x, y) ==
  IF IsNaN(x) \/ IsNaN(y) THEN NaN
  ELSE IF IsInf(x) \/ IsInf(y) THEN Frac(Sign(x.n) * Sign(y.n), 0)
  ELSE LET g1 == Gcd(Abs(x.n), y.d)
           g2 == Gcd(Abs(y.n), x.d)
       IN  Frac((x.n \div g1) * (y.n \div g2), (x.d \div g2) * (y.d \div g1))

\* IEEE division: x/0 = +-Inf for x # 0, 0/0 = Inf/Inf = NaN, x/Inf = 0.
FDiv(x, y) ==
  IF IsNaN(x) \/ IsNaN(y) THEN NaN
  ELSE IF IsInf(x) THEN (IF IsInf(y) THEN NaN
                         ELSE Frac(x.n * (IF y.n < 0 THEN -1 ELSE 1), 0))
  ELSE IF IsInf(y) THEN Num(0)
  ELSE IF y.n = 0 THEN Frac(Sign(x.n), 0)
  ELSE FMul(x, Frac(y.d, y.n))

\* IEEE ==: NaN equals nothing.
FEq(x, y) == ~IsNaN(x) /\ ~IsNaN(y) /\ x = y

\* IEEE >: false when either side is NaN.
FGt(x, y) ==
  IF IsNaN(x) \/ IsNaN(y) THEN FALSE
  ELSE IF IsInf(x) THEN x.n > 0 /\ y # x
  ELSE IF IsInf(y) THEN y.n < 0
  ELSE x.n * y.d > y.n * x.d

(***************************************************************************)
(* Rounding a positive rational to p significant bits (round to nearest,   *)
(* ties to even), by long division.  The result is <<e, bits>>: the value  *)
(* 2^e * 1.b2 b3 ... bp, bits = <<1, b2, ..., bp>>.                        *)
(***************************************************************************)
FLOAT_BITS == 24
DOUBLE_BITS == 53

RECURSIVE Pow2(_)
Pow2(k) == IF k = 0 THEN 1 ELSE 2 * Pow2(k - 1)

\* The exponent e with 2^e <= n/d < 2^(e+1), for n, d > 0.
RECURSIVE Exponent(_, _)
Exponent(n, d) ==
  IF n >= 2 * d THEN 1 + Exponent(n, 2 * d)
  ELSE IF n < d THEN Exponent(2 * n, d) - 1
  ELSE 0

\* k further bits of r/d (0 <= r < d), and the remainder left after them.
RECURSIVE LongDiv(_, _, _, _)
LongDiv(r, d, k, acc) ==
  IF k = 0 THEN [bits |-> acc, rem |-> r]
  ELSE IF 2 * r >= d THEN LongDiv(2 * r - d, d, k - 1, Append(acc, 1))
       ELSE LongDiv(2 * r, d, k - 1, Append(acc, 0))

\* bits + 1 in the last place; carry is 1 when every bit was 1.
RECURSIVE Increment(_, _)
Increment(bits, i) ==
  IF i = 0 THEN [bits |-> bits, carry |-> 1]
  ELSE IF bits[i] = 0 THEN [bits |-> [bits EXCEPT ![i] = 1], carry |-> 0]
       ELSE Increment([bits EXCEPT ![i] = 0], i - 1)

RoundToBits(n, d, p) ==
  LET e  == Exponent(n, d)
      nn == IF e < 0 THEN n * Pow2(-e) ELSE n
      dd == IF e > 0 THEN d * Pow2(e) ELSE d
      q  == LongDiv(nn - dd, dd, p - 1, <<1>>)
      up == 2 * q.rem > dd \/ (2 * q.rem = dd /\ q.bits[p] = 1)
      inc == Increment(q.bits, p)
  IN  IF ~up THEN <<e, q.bits>>
      ELSE IF inc.carry = 1 THEN <<e + 1, [i \in 1..p |-> IF i = 1 THEN 1 ELSE 0]>>
      ELSE <<e, inc.bits>>

\* Lexicographic order on bit strings, the shorter one padded with zeros.
RECURSIVE BitsGreater(_, _, _)
BitsGreater(a, b, i) ==
  IF i > Len(a) /\ i > Len(b) THEN FALSE
  ELSE LET x == IF i <= Len(a) THEN a[i] ELSE 0
           y == IF i <= Len(b) THEN b[i] ELSE 0
       IN  IF x # y THEN x > y ELSE BitsGreater(a, b, i + 1)

\* float(x) > double(c), for c a positive rational literal: the float is
\* promoted to double (exactly) and compared with the literal's double.
FloatGtDoubleLiteral(x, cn, cd) ==
  IF IsNaN(x) THEN FALSE
  ELSE IF IsInf(x) THEN x.n > 0
  ELSE IF x.n <= 0 THEN FALSE
  ELSE LET f == RoundToBits(x.n, x.d, FLOAT_BITS)
           c == RoundToBits(cn, cd, DOUBLE_BITS)
       IN  f[1] > c[1] \/ (f[1] = c[1] /\ BitsGreater(f[2], c[2], 1))

(***************************************************************************)
(* Text: std::string::find, substr, atoi, atof on sequences of units.      *)
(***************************************************************************)
npos == -1

Min(a, b) == IF a < b THEN a ELSE b

\* std::string::find: the 0-based offset of the first occurrence, or npos.
\* npos + 1 = 0 and npos + 2 = 1, as in size_t arithmetic.
Find(text, unit) ==
  IF \E i \in 1..Len(text) : text[i] = unit
  THEN (CHOOSE i \in 1..Len(text) :
          text[i] = unit /\ \A j \in 1..(i - 1) : text[j] # unit) - 1
  ELSE npos

\* std::string::rfind.
RFind(text, unit) ==
  IF \E i \in 1..Len(text) : text[i] = unit
  THEN (CHOOSE i \in 1..Len(text) :
          text[i] = unit /\ \A j \in (i + 1)..Len(text) : text[j] # unit) - 1
  ELSE npos

\* substr(pos, n) throws std::out_of_range exactly when pos > size().
SubstrThrows(text, pos) == pos > Len(text)

Substr(text, pos, n) == SubSeq(text, pos + 1, Min(pos + n, Len(text)))

SubstrFrom(text, pos) == SubSeq(text, pos + 1, Len(text))

Digits == <<"0", "1", "2", "3", "4", "5", "6", "7", "8", "9">>

IsDigit(c) == \E k \in 1..10 : Digits[k] = c

DigitVal(c) == (CHOOSE k \in 1..10 : Digits[k] = c) - 1

IsSpace(c) == c \in {" ", "\t"}

RECURSIVE SkipSpace(_, _)
SkipSpace(s, i) == IF i <= Len(s) /\ IsSpace(s[i]) THEN SkipSpace(s, i + 1) ELSE i

\* The run of digits of s from index i: its value, its length, the next index.
RECURSIVE ReadDigits(_, _, _, _)
ReadDigits(s, i, val, cnt) ==
  IF i <= Len(s) /\ IsDigit(s[i])
  THEN ReadDigits(s, i + 1, 10 * val + DigitVal(s[i]), cnt + 1)
  ELSE [val |-> val, cnt |-> cnt, next |-> i]

RECURSIVE Pow10(_)
Pow10(k) == IF k = 0 THEN 1 ELSE 10 * Pow10(k - 1)

\* atoi: leading white space, an optional sign, digits; 0 when no digits follow.
atoi(s) ==
  LET i == SkipSpace(s, 1)
      signed == i <= Len(s) /\ s[i] \in {"-", "+"}
      r == ReadDigits(s, IF signed THEN i + 1 ELSE i, 0, 0)
  IN  IF signed /\ s[i] = "-" THEN -r.val ELSE r.val

\* atof: as atoi, then an optional "." and fraction digits (the inputs of the
\* model carry no exponent part); 0 when no number starts the string.
atof(s) ==
  LET i == SkipSpace(s, 1)
      signed == i <= Len(s) /\ s[i] \in {"-", "+"}
      ip == ReadDigits(s, IF signed THEN i + 1 ELSE i, 0, 0)
      dot == ip.next <= Len(s) /\ s[ip.next] = "."
      fp == IF dot THEN ReadDigits(s, ip.next + 1, 0, 0)
            ELSE [val |-> 0, cnt |-> 0, next |-> ip.next]
      mag == Frac(ip.val * Pow10(fp.cnt) + fp.val, Pow10(fp.cnt))
  IN  IF ip.cnt = 0 /\ fp.cnt = 0 THEN Num(0)
      ELSE IF signed /\ s[i] = "-" THEN FNeg(mag) ELSE mag

\* parse_metadata_line (vw/tools/flood_common.h): the text after the last "="
\* parsed as a float.
parse_metadata_line(line) == atof(SubstrFrom(line, RFind(line, "=") + 1))

(***************************************************************************)
(* The metadata record and the parser's per-line step.                     *)
(***************************************************************************)
EmptyMetadata ==
  [abs_cal_factor      |-> [i \in Bands |-> Unset],
   effective_bandwidth |-> [i \in Bands |-> Unset],
   mean_sun_elevation  |-> Unset,
   earth_sun_distance  |-> Unset,
   datetime            |-> <<>>]

\* The chain of "if (name == ...) channel_index = ..." of a BEGIN_GROUP line.
BandIndex(name) ==
  IF      name = <<"BAND_N2">> THEN 7
  ELSE IF name = <<"BAND_N">>  THEN 6
  ELSE IF name = <<"BAND_RE">> THEN 5
  ELSE IF name = <<"BAND_R">>  THEN 4
  ELSE IF name = <<"BAND_Y">>  THEN 3
  ELSE IF name = <<"BAND_G">>  THEN 2
  ELSE IF name = <<"BAND_B">>  THEN 1
  ELSE IF name = <<"BAND_C">>  THEN 0
  ELSE -1

OutsideBandGroupAlways(channel_index) == FALSE

\* The guard "if (channel_index < 0) vw_throw(...)" of both per-band keys.
OutsideBandGroup(channel_index) == channel_index < 0

MetadataIncompleteOffByTwo(found_count) == found_count < 2 * NUM_WORLDVIEW_BANDS

\* The completeness check "found_count != 2*NUM_WORLDVIEW_BANDS+2".
MetadataIncomplete(found_count) == found_count # 2 * NUM_WORLDVIEW_BANDS + 2

\* Unrecognized group names rejected instead of ignored.
BeginGroupStrict(s, line) ==
  LET eqpos == Find(line, "=")
  IN  IF SubstrThrows(line, eqpos + 2) THEN [s EXCEPT !.error = "out_of_range"]
      ELSE IF BandIndex(SubstrFrom(line, eqpos + 2)) < 0
        THEN [s EXCEPT !.error = "unknown_group"]
      ELSE [s EXCEPT !.channel_index = BandIndex(SubstrFrom(line, eqpos + 2))]

\* The "Check for new group" branch: name = line.substr(eqpos+2).
BeginGroup(s, line) ==
  LET eqpos == Find(line, "=")
  IN  IF SubstrThrows(line, eqpos + 2)
      THEN [s EXCEPT !.error = "out_of_range"]
      ELSE [s EXCEPT !.channel_index = BandIndex(SubstrFrom(line, eqpos + 2))]

\* One iteration of the getline loop on the scan state
\* s = [channel_index, found_count, metadata, error].
ProcessLine(s, line) ==
  IF Find(line, "BEGIN_GROUP") # npos THEN BeginGroup(s, line)
  ELSE IF Find(line, "absCalFactor") # npos THEN
    IF OutsideBandGroup(s.channel_index)
    THEN [s EXCEPT !.error = "absCalFactor_outside_group"]
    ELSE [s EXCEPT !.metadata.abs_cal_factor[s.channel_index] = parse_metadata_line(line),
                   !.found_count = @ + 1]
  ELSE IF Find(line, "effectiveBandwidth") # npos THEN
    IF OutsideBandGroup(s.channel_index)
    THEN [s EXCEPT !.error = "effectiveBandwidth_outside_group"]
    ELSE [s EXCEPT !.metadata.effective_bandwidth[s.channel_index] = parse_metadata_line(line),
                   !.found_count = @ + 1]
  ELSE IF Find(line, "meanSunEl") # npos THEN
    [s EXCEPT !.metadata.mean_sun_elevation = parse_metadata_line(line),
              !.found_count = @ + 1]
  ELSE IF Find(line, "firstLineTime") # npos THEN
    [s EXCEPT !.metadata.datetime = SubstrFrom(line, Find(line, "=") + 1),
              !.found_count = @ + 1]
  ELSE s

\* compute_earth_sun_distance (vw/tools/flood_common.h), in units of
\* 1/sqrt(pi) AU: farther from the sun in the northern summer months.
compute_earth_sun_distance(year, month, day, hour, minute, second) ==
  IF month \in 4..9 THEN Frac(9, 5) ELSE Frac(7, 4)

\* The six locals of populate_derived_values.
DerivedFields(datetime) ==
  [year   |-> atoi(Substr(datetime, 0, 4)),
   month  |-> atoi(Substr(datetime, 5, 2)),
   day    |-> atoi(Substr(datetime, 8, 2)),
   hour   |-> atoi(Substr(datetime, 11, 2)),
   minute |-> atoi(Substr(datetime, 14, 2)),
   second |-> atof(Substr(datetime, 17, 8))]

\* The last substr, substr(17,8), throws when the string is shorter than 17.
DeriveThrows(datetime) ==
  \E p \in {0, 5, 8, 11, 14, 17} : SubstrThrows(datetime, p)

NoDerived ==
  [year |-> 0, month |-> 0, day |-> 0, hour |-> 0, minute |-> 0, second |-> Unset]

\* populate_derived_values on a datetime it does not throw on.
populate_derived_values(md) ==
  LET f == DerivedFields(md.datetime)
  IN  [md EXCEPT !.earth_sun_distance =
         compute_earth_sun_distance(f.year, f.month, f.day, f.hour, f.minute,
                                    f.second)]

InitialScan ==
  [channel_index |-> -1, found_count |-> 0, metadata |-> EmptyMetadata,
   error |-> "none"]

\* The getline loop from line i on; an exception ends it.
RECURSIVE ScanLines(_, _, _)
ScanLines(s, file, i) ==
  IF s.error # "none" \/ i > Len(file) THEN s
  ELSE ScanLines(ProcessLine(s, file[i]), file, i + 1)

\* load_worldview3_metadata on an opened file, as a function: the record and
\* the exception it ends with ("none" when it returns).
load_worldview3_metadata(file) ==
  LET s == ScanLines(InitialScan, file, 1)
  IN  IF s.error # "none" THEN [metadata |-> s.metadata, error |-> s.error]
      ELSE IF MetadataIncomplete(s.found_count)
        THEN [metadata |-> s.metadata, error |-> "metadata_incomplete"]
      ELSE IF DeriveThrows(s.metadata.datetime)
        THEN [metadata |-> s.metadata, error |-> "out_of_range"]
      ELSE [metadata |-> populate_derived_values(s.metadata), error |-> "none"]

(***************************************************************************)
(* Per-pixel functions.  A pixel is [v, valid]: the channel vector and the *)
(* PixelMask validity flag.                                                *)
(***************************************************************************)
\* WORLDVIEW_ESUN, each entry rounded to the unit (TLC's integers are 32 bits
\* wide; products of two entries with four decimals do not fit).
WORLDVIEW_ESUN ==
  [i \in Bands |->
     Num(<<1758, 1974, 1856, 1738, 1559, 1342, 1070, 861>>[i + 1])]

FLOOD_DETECT_WATER == "WATER"
FLOOD_DETECT_LAND == "LAND"
FLOOD_DETECT_NODATA == "NODATA"

\* PixelMask's converting constructor (vw/Image/PixelMask.h): the channels
\* are converted, the validity flag is copied.
pixel_cast(pixel) ==
  [v |-> [i \in Bands |-> Num(pixel.v[i])], valid |-> pixel.valid]

\* is_valid (vw/Image/PixelMask.h).
is_valid(pixel) == pixel.valid

\* cos(DEG_TO_RAD*(90.0 - mean_sun_elevation)), for the elevations whose
\* sine is rational: 90 and 30 degrees.
CosZenith(elevation) ==
  IF elevation = Num(90) THEN Num(1)
  ELSE IF elevation = Num(30) THEN Frac(1, 2)
  ELSE CHOOSE c \in {} : TRUE

\* earth_sun_distance*earth_sun_distance*M_PI / cos(...); the distance is in
\* units of 1/sqrt(pi) AU, so the factor M_PI is part of d*d.
ScaleFactor(md) ==
  FDiv(FMul(md.earth_sun_distance, md.earth_sun_distance),
       CosZenith(md.mean_sun_elevation))

convert_to_toa_drops_mask(pixel_in, md) ==
  [v |-> [i \in Bands |->
            FDiv(FMul(FMul(Num(pixel_in.v[i]),
                           FDiv(md.abs_cal_factor[i], md.effective_bandwidth[i])),
                      ScaleFactor(md)),
                 WORLDVIEW_ESUN[i])],
   valid |-> TRUE]

convert_to_toa_times_esun(pixel_in, md) ==
  [v |-> [i \in Bands |->
            FMul(FMul(FMul(Num(pixel_in.v[i]),
                           FDiv(md.abs_cal_factor[i], md.effective_bandwidth[i])),
                      ScaleFactor(md)),
                 WORLDVIEW_ESUN[i])],
   valid |-> pixel_in.valid]

\* convert_to_toa: radiance, then reflectance; the mask travels with the pixel.
convert_to_toa(pixel_in, md) ==
  LET rad_pixel ==
        [pixel_cast(pixel_in) EXCEPT !.v =
           [i \in Bands |->
              FMul(@[i], FDiv(md.abs_cal_factor[i], md.effective_bandwidth[i]))]]
      scale_factor == ScaleFactor(md)
  IN  [rad_pixel EXCEPT !.v =
         [i \in Bands |-> FDiv(FMul(@[i], scale_factor), WORLDVIEW_ESUN[i])]]

\* compute_ndvi
compute_ndvi(pixel) ==
  LET denom == FAdd(pixel.v[RED], pixel.v[NIR2])
  IN  IF FEq(denom, Num(0)) THEN Num(0)
      ELSE FDiv(FSub(pixel.v[RED], pixel.v[NIR2]), denom)

compute_ndwi_unguarded(pixel) ==
  FDiv(FSub(pixel.v[BLUE], pixel.v[NIR1]), FAdd(pixel.v[BLUE], pixel.v[NIR1]))

\* compute_ndwi
compute_ndwi(pixel) ==
  LET denom == FAdd(pixel.v[BLUE], pixel.v[NIR1])
  IN  IF FEq(denom, Num(0)) THEN Num(0)
      ELSE FDiv(FSub(pixel.v[BLUE], pixel.v[NIR1]), denom)

\* compute_ndwi2
compute_ndwi2(pixel) ==
  LET denom == FAdd(pixel.v[COASTAL], pixel.v[NIR2])
  IN  IF FEq(denom, Num(0)) THEN Num(0)
      ELSE FDiv(FSub(pixel.v[COASTAL], pixel.v[NIR2]), denom)

\* DetectWaterWorldView3Functor::operator(): ndwi is a float, 0.1 a double.
DetectWaterWorldView3Functor(pixel) ==
  IF is_valid(pixel)
  THEN IF FloatGtDoubleLiteral(compute_ndwi(pixel), 1, 10)
       THEN FLOOD_DETECT_WATER
       ELSE FLOOD_DETECT_LAND
  ELSE FLOOD_DETECT_NODATA

(***************************************************************************)
(* Input files.  A file is a well-formed .IMD stream (one group per band,  *)
(* with its absCalFactor and effectiveBandwidth lines, one meanSunEl line  *)
(* and one firstLineTime line) to which at most one edit is applied: a     *)
(* line deleted, or a line or a whole group inserted.                      *)
(***************************************************************************)
MaxRotation == 1
MaxGroupLines == 1

BandNames ==
  <<"BAND_C", "BAND_B", "BAND_G", "BAND_Y", "BAND_R", "BAND_RE", "BAND_N", "BAND_N2">>

HeaderLine(name) == <<"BEGIN_GROUP", " ", "=", " ", name>>

ValueLine(key, value) == <<"\t", key, " ", "=", " ">> \o value \o <<";">>

OtherLine == ValueLine("numRows", <<"7">>)

\* n as w decimal digits.
RECURSIVE FormatNum(_, _)
FormatNum(n, w) ==
  IF w = 0 THEN <<>> ELSE Append(FormatNum(n \div 10, w - 1), Digits[(n % 10) + 1])

\* YYYY-MM-DDTHH:MM:SS.ffffffZ
FormatTimestamp(ts) ==
  FormatNum(ts.year, 4) \o <<"-">> \o FormatNum(ts.month, 2) \o <<"-">>
    \o FormatNum(ts.day, 2) \o <<"T">> \o FormatNum(ts.hour, 2) \o <<":">>
    \o FormatNum(ts.minute, 2) \o <<":">> \o FormatNum(ts.sec, 2) \o <<".">>
    \o FormatNum(ts.micro, 6) \o <<"Z">>

Timestamps ==
  { [year |-> 2016, month |-> 10, day |-> 23, hour |-> 17, minute |-> 46,
     sec |-> 54, micro |-> 796950],
    [year |-> 2020, month |-> 2, day |-> 29, hour |-> 0, minute |-> 5,
     sec |-> 9, micro |-> 1] }

DefaultTimestamp == CHOOSE ts \in Timestamps : ts.year = 2016

\* What follows "firstLineTime =": a timestamp in the documented layout after
\* a blank or directly after the "=", or text that is no timestamp.
TimeCases ==
  [form : {"stamp"}, blank : BOOLEAN, ts : Timestamps]
    \cup [form : {"words", "short"}, blank : {TRUE}, ts : {DefaultTimestamp}]

TimeText(tc) ==
  (IF tc.blank THEN <<" ">> ELSE <<>>)
    \o (IF tc.form = "stamp" THEN FormatTimestamp(tc.ts)
        ELSE IF tc.form = "words"
          THEN <<"n", "o", "t", " ", "a", "v", "a", "i", "l", "a", "b", "l", "e",
                 " ", "f", "o", "r", " ", "t", "h", "i", "s", " ", "s", "c", "e",
                 "n", "e">>
        ELSE <<"u", "n", "k", "n", "o", "w", "n">>)

TimeLine(tc) == <<"\t", "firstLineTime", " ", "=">> \o TimeText(tc) \o <<";">>

DefaultTimeCase == [form |-> "stamp", blank |-> TRUE, ts |-> DefaultTimestamp]

AbsValue(b) == <<Digits[(b % 3) + 2]>>
BwValue(b) == <<Digits[((b + 1) % 3) + 2]>>

SunLine(value) == ValueLine("meanSunEl", value)

\* The group of band b; the two keys in either order.
BandGroup(b, absFirst) ==
  <<HeaderLine(BandNames[b + 1])>>
    \o (IF absFirst
        THEN <<ValueLine("absCalFactor", AbsValue(b)),
               ValueLine("effectiveBandwidth", BwValue(b))>>
        ELSE <<ValueLine("effectiveBandwidth", BwValue(b)),
               ValueLine("absCalFactor", AbsValue(b))>>)

RECURSIVE BandGroups(_, _, _)
BandGroups(first, k, absFirst) ==
  IF k = 0 THEN <<>>
  ELSE BandGroups(first, k - 1, absFirst)
         \o BandGroup((first + k - 1) % NUM_WORLDVIEW_BANDS, absFirst)

Layouts == {"head", "tail", "image_group"}

\* The well-formed file: where the two scene-level lines stand is the layout.
BaseFile(rotation, layout, tc) ==
  LET scene == <<SunLine(<<"3", "0">>), TimeLine(tc)>>
      groups == BandGroups(rotation, NUM_WORLDVIEW_BANDS, layout # "tail")
  IN  IF layout = "head" THEN <<OtherLine>> \o scene \o groups
      ELSE IF layout = "tail" THEN <<OtherLine>> \o groups \o scene
      ELSE <<OtherLine>> \o groups \o <<HeaderLine("IMAGE_1")>> \o scene

NoEdit == [kind |-> "none", at |-> 0, lines |-> <<>>]

\* Lines a group that is no band group may hold.
GroupLines ==
  { OtherLine, ValueLine("absCalFactor", <<"5">>),
    ValueLine("effectiveBandwidth", <<"5">>), SunLine(<<"9", "0">>) }

UnknownGroups ==
  { <<HeaderLine("MAP_PROJECTED_PRODUCT")>> \o body :
      body \in UNION { [1..k -> GroupLines] : k \in 0..MaxGroupLines } }

InsertMenu ==
  UnknownGroups
    \cup { <<l>> : l \in GroupLines }
    \cup { <<TimeLine(DefaultTimeCase)>>, <<HeaderLine("BAND_C")>>,
           <<<<"BEGIN_GROUP", " ", "=">>>> }

Edits(base) ==
  {NoEdit}
    \cup [kind : {"delete"}, at : 1..Len(base), lines : {<<>>}]
    \cup [kind : {"insert"}, at : 0..Len(base), lines : InsertMenu]

ApplyEdit(base, e) ==
  IF e.kind = "delete" THEN SubSeq(base, 1, e.at - 1) \o SubSeq(base, e.at + 1, Len(base))
  ELSE IF e.kind = "insert"
    THEN SubSeq(base, 1, e.at) \o e.lines \o SubSeq(base, e.at + 1, Len(base))
  ELSE base

\* gen = [rotation, layout, time, edit] describes how the file was made.
GenBase(gen) == BaseFile(gen.rotation, gen.layout, gen.time)

GenFile(gen) == ApplyEdit(GenBase(gen), gen.edit)

DefaultGen ==
  [rotation |-> 0, layout |-> "image_group", time |-> DefaultTimeCase, edit |-> NoEdit]

\* Every form of the time line, in an unedited file.
TimeGens ==
  [rotation : {0}, layout : Layouts, time : TimeCases, edit : {NoEdit}]

\* The files of the parser's specification: every rotation, layout and edit
\* with the default time line, and every time line without an edit.
LoadGens ==
  TimeGens
    \cup UNION { [rotation : {r}, layout : {l}, time : {DefaultTimeCase},
                  edit : Edits(BaseFile(r, l, DefaultTimeCase))] :
                   r \in 0..MaxRotation, l \in Layouts }

(***************************************************************************)
(* State.                                                                  *)
(***************************************************************************)
VARIABLES
  pc,             \* position in detect_water_worldview3 / load_worldview3_metadata
  input,          \* the candidate paths' content: image, georeference, .IMD file
  pos,            \* lines of the .IMD file consumed by getline
  channel_index,  \* local of load_worldview3_metadata
  found_count,    \* local of load_worldview3_metadata
  metadata,       \* the WorldViewMetadataContainer being filled
  error,          \* the exception that ended the run, or "none"
  derived,        \* locals of populate_derived_values
  m_metadata,     \* WorldView3ToaFunctor's copy of the metadata
  output,         \* labels written to the output raster
  events,         \* log of the steps completed so far
  pixel_in,       \* argument of convert_to_toa
  pixel_toa,      \* a reflectance pixel
  label,          \* result of DetectWaterWorldView3Functor
  index           \* results of compute_ndvi, compute_ndwi, compute_ndwi2

vars ==
  <<pc, input, pos, channel_index, found_count, metadata, error, derived,
    m_metadata, output, events, pixel_in, pixel_toa, label, index>>

loadVars == <<pos, channel_index, found_count, metadata, error, derived, events>>

pixelVars == <<pixel_in, pixel_toa, label, index>>

NoPixel == [v |-> [i \in Bands |-> 0], valid |-> FALSE]

NoIndex == [ndvi |-> Unset, ndwi |-> Unset, ndwi2 |-> Unset]

ScanState ==
  [channel_index |-> channel_index, found_count |-> found_count,
   metadata |-> metadata, error |-> error]

InitScan ==
  /\ pos = 0
  /\ channel_index = -1
  /\ found_count = 0
  /\ error = "none"
  /\ derived = NoDerived
  /\ events = <<>>

InitRest ==
  /\ m_metadata = EmptyMetadata
  /\ output = [k \in 1..Len(input.image) |-> "unwritten"]
  /\ pixel_in = NoPixel
  /\ pixel_toa = NoPixel
  /\ label = "none"
  /\ index = NoIndex

MakeInput(gen, imageFound, georefOk, metadataFound, image) ==
  [image_found |-> imageFound, georef_ok |-> georefOk,
   metadata_found |-> metadataFound, file |-> GenFile(gen), image |-> image,
   gen |-> gen]

(***************************************************************************)
(* load_worldview3_metadata, one action per step.                          *)
(***************************************************************************)
\* find_string_in_list(input_paths, ".IMD") and the ifstream's opening.
FindMetadataFile ==
  /\ pc = "find_metadata"
  /\ IF input.metadata_found
     THEN pc' = "scan" /\ error' = error
     ELSE pc' = "aborted" /\ error' = "metadata_not_found"
  /\ UNCHANGED <<input, pos, channel_index, found_count, metadata, derived,
                 m_metadata, output, events, pixelVars>>

\* One iteration of "while (std::getline(handle, line))".
ReadLine ==
  /\ pc = "scan"
  /\ pos < Len(input.file)
  /\ LET r == ProcessLine(ScanState, input.file[pos + 1])
     IN  /\ channel_index' = r.channel_index
         /\ found_count' = r.found_count
         /\ metadata' = r.metadata
         /\ error' = r.error
         /\ pc' = IF r.error = "none" THEN "scan" ELSE "aborted"
  /\ pos' = pos + 1
  /\ UNCHANGED <<input, derived, m_metadata, output, events, pixelVars>>

\* End of stream: handle.close() and the completeness check.
CheckComplete ==
  /\ pc = "scan"
  /\ pos = Len(input.file)
  /\ IF MetadataIncomplete(found_count)
     THEN pc' = "aborted" /\ error' = "metadata_incomplete" /\ events' = events
     ELSE pc' = "derive" /\ error' = error /\ events' = Append(events, "complete")
  /\ UNCHANGED <<input, pos, channel_index, found_count, metadata, derived,
                 m_metadata, output, pixelVars>>

\* metadata.populate_derived_values().
PopulateDerivedValues ==
  /\ pc = "derive"
  /\ IF DeriveThrows(metadata.datetime)
     THEN /\ pc' = "aborted"
          /\ error' = "out_of_range"
          /\ UNCHANGED <<derived, metadata, events>>
     ELSE /\ derived' = DerivedFields(metadata.datetime)
          /\ metadata' = populate_derived_values(metadata)
          /\ pc' = "loaded"
          /\ error' = error
          /\ events' = Append(events, "derived")
  /\ UNCHANGED <<input, pos, channel_index, found_count, m_metadata, output,
                 pixelVars>>

InitLoad ==
  /\ pc = "find_metadata"
  /\ \/ \E gen \in LoadGens : input = MakeInput(gen, TRUE, TRUE, TRUE, <<>>)
     \/ input = MakeInput(DefaultGen, TRUE, TRUE, FALSE, <<>>)
  /\ InitScan
  /\ metadata = EmptyMetadata
  /\ InitRest

NextLoad == FindMetadataFile \/ ReadLine \/ CheckComplete \/ PopulateDerivedValues

SpecLoad == InitLoad /\ [][NextLoad]_vars

(***************************************************************************)
(* Properties of the parser (checked under SpecLoad).                      *)
(***************************************************************************)
Gen == input.gen

HasKey(line, key) == Find(line, key) # npos

CountedKeys == {"absCalFactor", "effectiveBandwidth", "meanSunEl", "firstLineTime"}

HasCountedKey(line) == \E k \in CountedKeys : HasKey(line, k)

IsHeader(line) == HasKey(line, "BEGIN_GROUP")

\* The file is a well-formed stream whose time line has the documented layout.
WellFormedInput ==
  input.metadata_found /\ Gen.edit.kind = "none" /\ Gen.time.form = "stamp"

\* The file is a well-formed stream less one of its 18 field lines.
OneFieldDeleted ==
  /\ input.metadata_found
  /\ Gen.edit.kind = "delete"
  /\ Gen.time.form = "stamp"
  /\ HasCountedKey(GenBase(Gen)[Gen.edit.at])

\* C1: the load of a well-formed stream never fails, and with any single one
\* of the 18 field lines deleted the load neither reaches the derive step nor
\* returns: it ends at the end of the stream with the metadata-incomplete
\* error, the derived values untouched.
C1_WellFormedLoadsAndFieldRemovedFails ==
  /\ WellFormedInput => pc # "aborted"
  /\ OneFieldDeleted =>
       /\ pc \notin {"derive", "loaded"}
       /\ pc = "aborted" =>
            /\ error = "metadata_incomplete"
            /\ pos = Len(input.file)
            /\ found_count = 2 * NUM_WORLDVIEW_BANDS + 1
            /\ derived = NoDerived
            /\ metadata.earth_sun_distance = Unset

C1_Witness ==
  /\ OneFieldDeleted
  /\ pc = "aborted"
  /\ error = "metadata_incomplete"
  /\ HasKey(GenBase(Gen)[Gen.edit.at], "effectiveBandwidth")

AllStored(md) ==
  /\ \A i \in Bands : md.abs_cal_factor[i] # Unset /\ md.effective_bandwidth[i] # Unset
  /\ md.mean_sun_elevation # Unset
  /\ md.datetime # <<>>

\* C2: whenever the load returns, every band's abs_cal_factor and
\* effective_bandwidth, the sun elevation and the timestamp have been stored.
C2_PartialMetadataNeverAccepted == pc = "loaded" => AllStored(metadata)

PerBandKey(line) == HasKey(line, "absCalFactor") \/ HasKey(line, "effectiveBandwidth")

\* C3: a line with a per-band key read while channel_index is -1 aborts the
\* parse with that key's error, storing nothing and counting nothing; and a
\* per-band line that is counted stores its value at channel_index, an index
\* in 0..NUM_WORLDVIEW_BANDS-1, and nowhere else.
C3_KeyOutsideGroupAborts ==
  [][ (pc = "scan" /\ pos < Len(input.file) /\ PerBandKey(input.file[pos + 1])) =>
        LET line == input.file[pos + 1]
            isAbs == HasKey(line, "absCalFactor")
        IN  /\ channel_index = -1 =>
                 /\ pc' = "aborted"
                 /\ error' = (IF isAbs THEN "absCalFactor_outside_group"
                              ELSE "effectiveBandwidth_outside_group")
                 /\ metadata' = metadata
                 /\ found_count' = found_count
            /\ (found_count' # found_count \/ metadata' # metadata) =>
                 /\ channel_index \in Bands
                 /\ found_count' = found_count + 1
                 /\ metadata' =
                      (IF isAbs
                       THEN [metadata EXCEPT !.abs_cal_factor[channel_index] =
                                                parse_metadata_line(line)]
                       ELSE [metadata EXCEPT !.effective_bandwidth[channel_index] =
                                                parse_metadata_line(line)])
    ]_vars

\* A per-band key met inside an unrecognized group that follows band groups.
C3_Witness ==
  /\ pc = "aborted"
  /\ error = "effectiveBandwidth_outside_group"
  /\ channel_index = -1
  /\ \E i \in Bands : metadata.abs_cal_factor[i] # Unset

AtGroupBoundary(base, at) == at = Len(base) \/ IsHeader(base[at + 1])

\* The file is a stream that loads, with a group of an unrecognized name
\* inserted where a group can start.
UnknownGroupInserted ==
  /\ input.metadata_found
  /\ Gen.edit.kind = "insert"
  /\ Gen.edit.lines \in UnknownGroups
  /\ AtGroupBoundary(GenBase(Gen), Gen.edit.at)
  /\ load_worldview3_metadata(GenBase(Gen)).error = "none"

SameAsWithoutEdit ==
  /\ pc # "aborted"
  /\ pc = "loaded" => metadata = load_worldview3_metadata(GenBase(Gen)).metadata

\* C4 as stated: an inserted unrecognized group, whatever its lines, never
\* makes the load fail and never changes the resulting record.
C4_UnknownGroupIgnored == UnknownGroupInserted => SameAsWithoutEdit

NoCountedKeys(lines) == \A i \in 1..Len(lines) : ~HasCountedKey(lines[i])

\* C4 amended: an inserted unrecognized group none of whose lines contains
\* absCalFactor, effectiveBandwidth, meanSunEl or firstLineTime never makes
\* the load fail and never changes the resulting record.
C4_KeylessUnknownGroupIgnored ==
  (UnknownGroupInserted /\ NoCountedKeys(Gen.edit.lines)) => SameAsWithoutEdit

C4_Witness ==
  /\ UnknownGroupInserted
  /\ NoCountedKeys(Gen.edit.lines)
  /\ Len(Gen.edit.lines) > 1
  /\ Gen.edit.at < Len(GenBase(Gen))
  /\ pc = "loaded"

AllDigits(s, n) == Len(s) = n /\ \A i \in 1..Len(s) : IsDigit(s[i])

\* The slices of populate_derived_values hold numbers in the timestamp layout.
SlicesNumeric(dt) ==
  /\ AllDigits(Substr(dt, 0, 4), 4)
  /\ AllDigits(Substr(dt, 5, 2), 2)
  /\ AllDigits(Substr(dt, 8, 2), 2)
  /\ AllDigits(Substr(dt, 11, 2), 2)
  /\ AllDigits(Substr(dt, 14, 2), 2)
  /\ AllDigits(Substr(dt, 17, 2), 2)
  /\ Substr(dt, 19, 1) = <<".">>
  /\ AllDigits(Substr(dt, 20, 5), 5)

WrittenSecond(ts) == Frac(ts.sec * 1000000 + ts.micro, 1000000)

\* C7: after a line "firstLineTime = <timestamp>" the derive step has the
\* year, month, day, hour, minute and second written in <timestamp>; and the
\* derive step never completes on a stored string whose slices are not
\* numbers in the timestamp layout.
C7_TimestampCorrectOrFail ==
  pc = "loaded" =>
    /\ (Gen.edit.kind = "none" /\ Gen.time.form = "stamp" /\ Gen.time.blank) =>
         /\ derived.year = Gen.time.ts.year
         /\ derived.month = Gen.time.ts.month
         /\ derived.day = Gen.time.ts.day
         /\ derived.hour = Gen.time.ts.hour
         /\ derived.minute = Gen.time.ts.minute
         /\ derived.second = WrittenSecond(Gen.time.ts)
    /\ SlicesNumeric(metadata.datetime)

(***************************************************************************)
(* The per-pixel functions on their own: SpecToa applies convert_to_toa    *)
(* and the classifier to a raw pixel under a metadata record; SpecIndex    *)
(* applies the three index functions and the classifier to a reflectance   *)
(* pixel.                                                                  *)
(***************************************************************************)
MaxRaw == 3
MaxChan == 23

Coefs == {Num(0), Num(1), Num(2)}

\* Records that differ from a background in one band's two coefficients.
ToaMetadatas ==
  { [abs_cal_factor      |-> [i \in Bands |-> IF i = k THEN a ELSE bg],
     effective_bandwidth |-> [i \in Bands |-> IF i = k THEN b ELSE Num(1)],
     mean_sun_elevation  |-> e,
     earth_sun_distance  |-> d,
     datetime            |-> <<>>] :
      k \in Bands, a \in Coefs, b \in Coefs, bg \in {Num(1), Num(2)},
      e \in {Num(90), Num(30)}, d \in {Num(1), Num(2)} }

\* Raw pixels that differ from a background in one band.
RawPixels ==
  { [v |-> [i \in Bands |-> IF i = k THEN y ELSE x], valid |-> ok] :
      k \in {BLUE, NIR1}, y \in 0..MaxRaw, x \in 0..1, ok \in BOOLEAN }

ChanVals == { Num(k) : k \in -1..MaxChan } \cup {PosInf, NaN}

IndexPairs == { <<RED, NIR2>>, <<BLUE, NIR1>>, <<COASTAL, NIR2>> }

\* Reflectance pixels: one index function's two bands range over ChanVals.
ToaPixels ==
  { [v |-> [i \in Bands |-> IF i = p[1] THEN a ELSE IF i = p[2] THEN b ELSE Num(bg)],
     valid |-> ok] :
      p \in IndexPairs, a \in ChanVals, b \in ChanVals, bg \in 0..1, ok \in BOOLEAN }

InitIdle ==
  /\ input = MakeInput(DefaultGen, TRUE, TRUE, TRUE, <<>>)
  /\ InitScan
  /\ m_metadata = EmptyMetadata
  /\ output = <<>>

driverVars ==
  <<input, pos, channel_index, found_count, error, derived, m_metadata, output,
    events>>

ApplyToa ==
  /\ pc = "toa"
  /\ pixel_toa' = convert_to_toa(pixel_in, metadata)
  /\ pc' = "detect"
  /\ UNCHANGED <<driverVars, metadata, pixel_in, label, index>>

ApplyNdvi ==
  /\ pc = "ndvi"
  /\ index' = [index EXCEPT !.ndvi = compute_ndvi(pixel_toa)]
  /\ pc' = "ndwi"
  /\ UNCHANGED <<driverVars, metadata, pixel_in, pixel_toa, label>>

ApplyNdwi ==
  /\ pc = "ndwi"
  /\ index' = [index EXCEPT !.ndwi = compute_ndwi(pixel_toa)]
  /\ pc' = "ndwi2"
  /\ UNCHANGED <<driverVars, metadata, pixel_in, pixel_toa, label>>

ApplyNdwi2 ==
  /\ pc = "ndwi2"
  /\ index' = [index EXCEPT !.ndwi2 = compute_ndwi2(pixel_toa)]
  /\ pc' = "detect"
  /\ UNCHANGED <<driverVars, metadata, pixel_in, pixel_toa, label>>

ApplyDetect ==
  /\ pc = "detect"
  /\ label' = DetectWaterWorldView3Functor(pixel_toa)
  /\ pc' = "classified"
  /\ UNCHANGED <<driverVars, metadata, pixel_in, pixel_toa, index>>

InitToa ==
  /\ pc = "toa"
  /\ InitIdle
  /\ metadata \in ToaMetadatas
  /\ pixel_in \in RawPixels
  /\ pixel_toa = NoPixel
  /\ label = "none"
  /\ index = NoIndex

NextToa == ApplyToa \/ ApplyDetect

SpecToa == InitToa /\ [][NextToa]_vars

InitIndex ==
  /\ pc = "ndvi"
  /\ InitIdle
  /\ metadata = EmptyMetadata
  /\ pixel_in = NoPixel
  /\ pixel_toa \in ToaPixels
  /\ label = "none"
  /\ index = NoIndex

NextIndex == ApplyNdvi \/ ApplyNdwi \/ ApplyNdwi2 \/ ApplyDetect

SpecIndex == InitIndex /\ [][NextIndex]_vars

(***************************************************************************)
(* Properties of the per-pixel functions.                                  *)
(***************************************************************************)
Converted == pc \in {"detect", "classified"}

\* C5: convert_to_toa returns a pixel with the validity flag of its input,
\* and the classifier applied to that pixel yields NODATA for an invalid raw
\* pixel and WATER or LAND for a valid one.
C5_ValidityPropagated ==
  /\ Converted => pixel_toa.valid = pixel_in.valid
  /\ pc = "classified" =>
       IF pixel_in.valid
       THEN label \in {FLOOD_DETECT_WATER, FLOOD_DETECT_LAND}
       ELSE label = FLOOD_DETECT_NODATA

\* An invalid pixel whose channel values alone would indicate water.
C5_Witness ==
  /\ pc = "classified"
  /\ ~pixel_in.valid
  /\ label = FLOOD_DETECT_NODATA
  /\ FGt(compute_ndwi(pixel_toa), Frac(1, 10))

\* Band i has equal nonzero coefficients and the scale factor is 1.
GainIdentityCase(i) ==
  /\ metadata.abs_cal_factor[i] = metadata.effective_bandwidth[i]
  /\ metadata.abs_cal_factor[i] # Num(0)
  /\ ScaleFactor(metadata) = Num(1)

\* C8 as stated: with abs_cal_factor[i] == effective_bandwidth[i] (nonzero)
\* and scale_factor == 1, reflectance[i] == raw[i].
C8_GainIdentity ==
  Converted =>
    \A i \in Bands : GainIdentityCase(i) => pixel_toa.v[i] = Num(pixel_in.v[i])

\* C8 amended: with abs_cal_factor[i] == effective_bandwidth[i] (nonzero) and
\* scale_factor == 1, reflectance[i] == raw[i] / WORLDVIEW_ESUN[i].
C8_GainIdentityUpToIrradiance ==
  Converted =>
    \A i \in Bands :
      GainIdentityCase(i) =>
        pixel_toa.v[i] = FDiv(Num(pixel_in.v[i]), WORLDVIEW_ESUN[i])

C8_Witness ==
  /\ Converted
  /\ GainIdentityCase(BLUE)
  /\ metadata.abs_cal_factor[BLUE] = Num(2)
  /\ pixel_in.v[BLUE] = 3

\* NDWI compared with 0.1 as real numbers.
TriState(pixel, ndwi) ==
  IF ~pixel.valid THEN FLOOD_DETECT_NODATA
  ELSE IF FGt(ndwi, Frac(1, 10)) THEN FLOOD_DETECT_WATER
  ELSE FLOOD_DETECT_LAND

\* C6: the classifier's result is NODATA for an invalid pixel, otherwise
\* WATER when NDWI > 0.1 and LAND when NDWI <= 0.1 (so NDWI exactly 0.1 is
\* LAND), whatever the other bands hold.
C6_TriStateRule ==
  pc = "classified" => label = TriState(pixel_toa, index.ndwi)

\* The claimed value of an index on bands a, b.
ClaimedIndex(a, b) ==
  IF FEq(FAdd(a, b), Num(0)) THEN Num(0) ELSE FDiv(FSub(a, b), FAdd(a, b))

IndexResults ==
  { <<index.ndvi, pixel_toa.v[RED], pixel_toa.v[NIR2]>>,
    <<index.ndwi, pixel_toa.v[BLUE], pixel_toa.v[NIR1]>>,
    <<index.ndwi2, pixel_toa.v[COASTAL], pixel_toa.v[NIR2]>> }

\* C9 as stated: each index is 0 when its bands sum to zero and
\* (a - b)/(a + b) otherwise, hence 0 whenever its two bands are equal, and
\* it never divides by zero.
C9_IndexZeroOnEqualBands ==
  pc = "classified" =>
    \A r \in IndexResults :
      /\ r[1] = ClaimedIndex(r[2], r[3])
      /\ (IsFinite(r[2]) /\ IsFinite(r[3])) => IsFinite(r[1])
      /\ FEq(r[2], r[3]) => r[1] = Num(0)

\* C9 amended: each index is 0 when its bands sum to zero and
\* (a - b)/(a + b) otherwise, hence 0 whenever its two bands are equal and
\* finite, and it never divides by zero.
C9_IndexZeroOnEqualFiniteBands ==
  pc = "classified" =>
    \A r \in IndexResults :
      /\ r[1] = ClaimedIndex(r[2], r[3])
      /\ (IsFinite(r[2]) /\ IsFinite(r[3])) => IsFinite(r[1])
      /\ (FEq(r[2], r[3]) /\ IsFinite(r[2])) => r[1] = Num(0)

\* The guard's case: both bands of NDWI are zero.
C9_Witness ==
  /\ pc = "classified"
  /\ pixel_toa.v[BLUE] = Num(0)
  /\ pixel_toa.v[NIR1] = Num(0)
  /\ pixel_toa.v[RED] = Num(1)
  /\ index.ndwi = Num(0)

(***************************************************************************)
(* detect_water_worldview3: image, metadata, then the lazy per-pixel views *)
(* evaluated by block_write_gdal_image, pixel by pixel in any order.       *)
(***************************************************************************)
MaxPixels == 2

GeorefFailsNever(in) == FALSE

\* "if (!read_georeference(georef, disk_resource))"
GeorefFails(in) == ~in.georef_ok

\* load_worldview3_image
LoadImage ==
  /\ pc = "load_image"
  /\ IF ~input.image_found
     THEN pc' = "aborted" /\ error' = "image_not_found" /\ events' = events
     ELSE IF GeorefFails(input)
       THEN pc' = "aborted" /\ error' = "georef_failed" /\ events' = events
     ELSE pc' = "find_metadata" /\ error' = error /\ events' = Append(events, "image")
  /\ UNCHANGED <<input, pos, channel_index, found_count, metadata, derived,
                 m_metadata, output, pixelVars>>

UninitFloats == {Num(0), Num(1)}

UninitElevations == {Num(30), Num(90)}

\* What a copy of the record can hold: a field that was stored keeps its
\* value, a field that never was holds an arbitrary value.
InitializedCopies(md) ==
  { [md EXCEPT
       !.abs_cal_factor = [i \in Bands |-> IF @[i] = Unset THEN ua ELSE @[i]],
       !.effective_bandwidth = [i \in Bands |-> IF @[i] = Unset THEN ub ELSE @[i]],
       !.mean_sun_elevation = IF @ = Unset THEN ue ELSE @] :
      ua \in (IF \E i \in Bands : md.abs_cal_factor[i] = Unset
              THEN UninitFloats ELSE {Num(0)}),
      ub \in (IF \E i \in Bands : md.effective_bandwidth[i] = Unset
              THEN UninitFloats ELSE {Num(0)}),
      ue \in (IF md.mean_sun_elevation = Unset THEN UninitElevations ELSE {Num(0)}) }

\* WorldView3ToaFunctor(metadata): the functor keeps a copy of the record.
BuildViews ==
  /\ pc = "loaded"
  /\ m_metadata' \in InitializedCopies(metadata)
  /\ pc' = "write"
  /\ UNCHANGED <<input, loadVars, metadata, output, pixelVars>>

\* block_write_gdal_image evaluating the views at one pixel.
WritePixel ==
  /\ pc = "write"
  /\ \E k \in DOMAIN output :
       /\ output[k] = "unwritten"
       /\ output' =
            [output EXCEPT ![k] =
               DetectWaterWorldView3Functor(convert_to_toa(input.image[k], m_metadata))]
  /\ UNCHANGED <<pc, input, loadVars, metadata, m_metadata, pixelVars>>

\* block_write_gdal_image returns.
FinishWrite ==
  /\ pc = "write"
  /\ \A k \in DOMAIN output : output[k] # "unwritten"
  /\ pc' = "done"
  /\ UNCHANGED <<input, loadVars, metadata, m_metadata, output, pixelVars>>

DriverPixels ==
  { [v |-> [i \in Bands |-> IF i = BLUE THEN b ELSE 1], valid |-> ok] :
      b \in {1, 3}, ok \in BOOLEAN }

Images == UNION { [1..n -> DriverPixels] : n \in 1..MaxPixels }

\* A few files of each kind: loading, partially stored, incomplete, with a
\* per-band key in an unrecognized group, with a time line of another form.
DriverGens ==
  { gen \in LoadGens :
      /\ gen.rotation = 0
      /\ gen.layout = "tail"
      /\ \/ gen.edit.kind = "none"
         \/ gen.edit.kind = "delete" /\ gen.edit.at \in {5, 6}
         \/ gen.edit.kind = "insert" /\ gen.edit.at = 4
              /\ gen.edit.lines \in UnknownGroups }

InitDriver ==
  /\ pc = "load_image"
  /\ \E gen \in DriverGens, image \in Images, f \in [1..3 -> BOOLEAN] :
       input = MakeInput(gen, f[1], f[2], f[3], image)
  /\ InitScan
  /\ metadata = EmptyMetadata
  /\ InitRest

Next ==
  \/ LoadImage
  \/ FindMetadataFile
  \/ ReadLine
  \/ CheckComplete
  \/ PopulateDerivedValues
  \/ BuildViews
  \/ WritePixel
  \/ FinishWrite

Spec == InitDriver /\ [][Next]_vars

Written == \E k \in DOMAIN output : output[k] # "unwritten"

Writing == pc \in {"write", "done"}

InputFails ==
  \/ ~input.image_found
  \/ ~input.georef_ok
  \/ ~input.metadata_found
  \/ load_worldview3_metadata(input.file).error # "none"

\* C10: a pixel is classified and written only after the image was loaded
\* and the metadata stream was scanned to its end, passed the completeness
\* check and went through the derive step, in that order; a run whose image,
\* georeference, metadata file, parse or completeness check fails writes
\* nothing; and once writing has begun the record and the functor's copy of
\* it never change.
C10_MetadataBarrier ==
  /\ [](/\ (Written \/ Writing) =>
             /\ events = <<"image", "complete", "derived">>
             /\ pos = Len(input.file)
             /\ error = "none"
             /\ m_metadata \in InitializedCopies(metadata)
        /\ pc = "aborted" => ~Written
        /\ InputFails => ~Written /\ ~Writing)
  /\ [][Writing => (m_metadata' = m_metadata /\ metadata' = metadata)]_vars

\* One pixel is written and another is still to come.
C10_Witness ==
  /\ pc = "write"
  /\ Written
  /\ \E k \in DOMAIN output : output[k] = "unwritten"

====
